---- MODULE Spec2Model ----
(***************************************************************************)
(* git-remote-https+iap: the authentication-state lifecycle of             *)
(* cmd/git-remote-https+iap/main.go.                                       *)
(*                                                                         *)
(* handleIAPAuthCookieFor(url, forcebrowserflow) normalises the URL, reads *)
(* the cached IAP cookie (iap.ReadAuthState), reuses it when it has not    *)
(* expired and otherwise calls iap.NewAuth, once with the caller's flag    *)
(* and, when that fails, once more with forcebrowserflow = true.           *)
(*                                                                         *)
(* Strings are sequences of tokens ("" is <<>>).  Several short-lived      *)
(* processes (one per git operation) share the cookie files.  The package  *)
(* internal/iap (ReadAuthState, NewAuth, Cookie.Expired) is modelled from  *)
(* the specification's CredentialStore and Acquisition contracts.          *)
(***************************************************************************)
EXTENDS Integers, Sequences, FiniteSets, TLC

\* ---------------------------------------------------------------- bounds
\* The wall clock runs from 0 to MaxNow.
MaxNow == 2
\* A freshly acquired cookie lives 1..MaxTTL clock units.
MaxTTL == 1

\* The tokens the identity provider signs (token 0 is the one a cookie file
\* may hold before any process runs).
Tokens == {1, 2}

\* The concurrent invocations of the binary.
Procs == {"p1", "p2"}

\* ------------------------------------------------------- strings and URLs
PathTokens == {"/repo", "/other"}
QueryTokens == {"?q"}
FragmentTokens == {"#f"}
PortTokens == {"8080"}

\* The command-line URLs handed to the processes.
Urls ==
  { <<"https", ":", "//", "git.example.com", "/repo">>,
    <<"https+iap", ":", "//", "git.example.com", "/other", "?q", "#f">>,
    <<":", "bad">> }

\* Index of the first token of s that lies in set S, Len(s) + 1 when none.
RECURSIVE FirstIn(_, _, _)
FirstIn(s, S, i) ==
  IF i > Len(s) THEN Len(s) + 1
  ELSE IF s[i] \in S THEN i
  ELSE FirstIn(s, S, i + 1)

\* The tokens that can be a scheme: a letter, then letters, digits, "+", "-", ".".
SchemeWords == {"https", "http", "https+iap", "git.example.com"}

\* net/url getScheme: a leading ":" is "missing protocol scheme"; a scheme
\* word followed by ":" is the scheme; otherwise there is no scheme.
getScheme(addr) ==
  IF Len(addr) >= 1 /\ addr[1] = ":"
    THEN [scheme |-> <<>>, rest |-> <<>>, err |-> "missing protocol scheme"]
  ELSE IF Len(addr) >= 2 /\ addr[2] = ":" /\ addr[1] \in SchemeWords
    THEN [scheme |-> <<addr[1]>>, rest |-> SubSeq(addr, 3, Len(addr)), err |-> ""]
  ELSE [scheme |-> <<>>, rest |-> addr, err |-> ""]

\* net/url parseHost: what follows a ":" in the authority must be a port
\* number, or nothing.
validPort(authority) ==
  LET i == FirstIn(authority, {":"}, 1)
  IN  i >= Len(authority)
      \/ (i + 1 = Len(authority) /\ authority[i + 1] \in PortTokens)

\* net/url Parse, as far as main.go reads its result: Host and the error.
Parse(addr) ==
  LET s == getScheme(addr)
      noFrag == SubSeq(s.rest, 1, FirstIn(s.rest, FragmentTokens, 1) - 1)
      noQuery == SubSeq(noFrag, 1, FirstIn(noFrag, QueryTokens, 1) - 1)
      authority ==
        IF Len(noQuery) >= 1 /\ noQuery[1] = "//"
          THEN SubSeq(noQuery, 2, FirstIn(noQuery, PathTokens, 1) - 1)
          ELSE <<>>
      segment == SubSeq(noQuery, 1, FirstIn(noQuery, PathTokens \cup {"//"}, 1) - 1)
  IN  IF s.err # "" THEN [Host |-> <<>>, err |-> s.err]
      ELSE IF s.scheme = <<>> /\ FirstIn(segment, {":"}, 1) <= Len(segment)
        THEN [Host |-> <<>>, err |-> "first path segment in URL cannot contain colon"]
      ELSE IF ~validPort(authority) THEN [Host |-> <<>>, err |-> "invalid port"]
      ELSE [Host |-> authority, err |-> ""]

\* A normalisation that keeps the path of the address.
toHTTPSBaseDomainWithPath(addr) ==
  LET u == Parse(addr)
      IsPath(t) == t \in PathTokens
  IN  IF u.err # "" THEN [val |-> <<>>, err |-> u.err]
      ELSE [val |-> <<"https", ":", "//">> \o u.Host \o SelectSeq(addr, IsPath), err |-> ""]

\* A normalisation that returns the bare host, without "https://".
toHTTPSBaseDomainBare(addr) ==
  LET u == Parse(addr)
  IN  IF u.err # "" THEN [val |-> <<>>, err |-> u.err]
      ELSE [val |-> u.Host, err |-> ""]

\* toHTTPSBaseDomain: ("", err) when the address does not parse, else
\* fmt.Sprintf("https://%s", u.Host).
toHTTPSBaseDomain(addr) ==
  LET u == Parse(addr)
  IN  IF u.err # "" THEN [val |-> <<>>, err |-> u.err]
      ELSE [val |-> <<"https", ":", "//">> \o u.Host, err |-> ""]

\* The base domains the processes can work on.
Origins == { toHTTPSBaseDomain(u).val : u \in Urls }

\* ------------------------------------------------------------ credentials
\* A raw token is <<token id, expiry>>: the signed JWT carries its claims.
NoRaw == <<>>

\* iap.AuthState as main.go reads it: RawToken, Cookie.Token.Raw,
\* Cookie.Claims.ExpiresAt.
AuthState(raw) ==
  [ RawToken |-> raw,
    Cookie |-> [ Token |-> [Raw |-> raw],
                 Claims |-> [ExpiresAt |-> IF raw = NoRaw THEN 0 ELSE raw[2]] ] ]

\* The nil *iap.AuthState returned beside an error.
NilAuth == AuthState(NoRaw)

\* Cookie.Expired(): the expiry lies before the wall clock, no leeway.
Expired(cookie, t) == cookie.Claims.ExpiresAt < t

\* ------------------------------------------------------------- file system
Absent == [exists |-> FALSE, data |-> <<>>]
File(data) == [exists |-> TRUE, data |-> data]

\* The cookie file of an origin, and the staging file a process writes
\* before the atomic replace.
CookiePath(origin) == <<"gcp-iap">> \o origin \o <<".cookie">>
TmpPath(origin, p) == CookiePath(origin) \o <<".tmp", p>>

Paths ==
  { CookiePath(o) : o \in Origins }
    \cup { TmpPath(o, p) : o \in Origins, p \in Procs }

\* What a cookie file may hold before any process runs: nothing, garbage
\* (an empty file), or token 0, already close to expiry or long-lived.
InitFiles == { Absent, File(<<>>), File(<<0, 1>>), File(<<0, MaxNow + 1>>) }

\* CredentialStore.Load: NotFound, DecodeError, or the decoded credential.
Load(files, origin) ==
  LET f == files[CookiePath(origin)]
  IN  IF ~f.exists THEN [auth |-> NilAuth, err |-> "NotFound"]
      ELSE IF Len(f.data) # 2 THEN [auth |-> NilAuth, err |-> "DecodeError"]
      ELSE [auth |-> AuthState(f.data), err |-> ""]

\* Mutant: Save writes the cookie file in place.
SavePathInPlace(origin, p) == CookiePath(origin)

\* CredentialStore.Save writes to the staging file, never in place.
SavePath(origin, p) == TmpPath(origin, p)

\* Writing one block of a file at block offset i.
WriteAt(f, i, v) ==
  IF i = 1 THEN File(<<v>>)
  ELSE IF Len(f.data) = 0 THEN File(<<v>>)
  ELSE File(<<f.data[1], v>>)

\* rename(2): the destination is replaced in one step.
Rename(files, from, to) ==
  IF from = to THEN files
  ELSE [files EXCEPT ![to] = files[from], ![from] = Absent]

\* ------------------------------------------------------------------ state
VARIABLES
  now,        \* the wall clock (time.Now().Unix())
  fs,         \* the files: path -> content
  fs0,        \* the files as they were before any process ran
  pc,         \* where each process is in handleIAPAuthCookieFor
  forcebrowserflow, \* the forcebrowserflow parameter
  url,        \* the url variable after toHTTPSBaseDomain
  urlErr,     \* the error toHTTPSBaseDomain returned
  auth,       \* the auth variable
  err,        \* the err variable
  stage,      \* where the process is inside iap.NewAuth
  fresh,      \* the raw token NewAuth is persisting
  calls,      \* the NewAuth calls made in the run, in order
  loaded,     \* what ReadAuthState returned to the run
  checkedAt,  \* the clock read by the first Cookie.Expired()
  arg,        \* the url each command was given (args), kept where it is observed
  pureVars    \* the functions exercised on their own: arguments and results

\* The address handed to toHTTPSBaseDomain on its own.
rawAddr == pureVars.rawAddr
\* What successive calls of toHTTPSBaseDomain returned for rawAddr.
norm == pureVars.norm
\* The repo.Host values configureIAP is run with.
hosts == pureVars.hosts
\* The cookiePath configureIAP derived for each of them.
paths == pureVars.paths

\* The state of the runs of the binary.
runVars ==
  << now, fs, fs0, pc, forcebrowserflow, url, urlErr, auth, err,
     stage, fresh, calls, loaded, checkedAt, arg >>

vars == << runVars, pureVars >>

NotLoaded == [called |-> FALSE, auth |-> NilAuth, err |-> ""]

\* No function has been exercised on its own.
PureIdle ==
  pureVars = [rawAddr |-> <<>>, norm |-> <<>>, hosts |-> <<>>, paths |-> <<>>]

\* No process has started.
ProcsIdle ==
  /\ arg = [p \in Procs |-> <<>>]
  /\ pc = [p \in Procs |-> "idle"]
  /\ forcebrowserflow = [p \in Procs |-> FALSE]
  /\ url = [p \in Procs |-> <<>>]
  /\ urlErr = [p \in Procs |-> ""]
  /\ auth = [p \in Procs |-> NilAuth]
  /\ err = [p \in Procs |-> ""]
  /\ stage = [p \in Procs |-> "obtain"]
  /\ fresh = [p \in Procs |-> NoRaw]
  /\ calls = [p \in Procs |-> <<>>]
  /\ loaded = [p \in Procs |-> NotLoaded]
  /\ checkedAt = [p \in Procs |-> 0]

Init ==
  /\ PureIdle
  /\ ProcsIdle
  /\ now = 0
  /\ fs \in { f \in [Paths -> InitFiles] :
                /\ \A o \in Origins, p \in Procs : f[TmpPath(o, p)] = Absent
                /\ f[CookiePath(<<>>)] = Absent }
  /\ fs0 = fs

\* ------------------------------------------- handleIAPAuthCookieFor, pure
\* Mutant: the closing test never ends the process.
FinalNeverFatal(e) == "done"

\* The closing test: log.Fatal when err != nil, otherwise return auth.
Final(e) == IF e # "" THEN "fatal" ELSE "done"

\* Mutant: only a missing cookie leads to NewAuth, any other read error is fatal.
SwitchOnReadNotFoundOnly(e) ==
  IF e = "NotFound" THEN "NewAuthErr"
  ELSE IF e # "" THEN "fatal"
  ELSE "CaseExpired"

\* switch, first case: err != nil after iap.ReadAuthState.
SwitchOnRead(e) == IF e # "" THEN "NewAuthErr" ELSE "CaseExpired"

\* Mutant: the test of the second case is negated.
SwitchOnExpiredInverted(expired) == IF expired THEN "CaseNotExpired" ELSE "NewAuthExp"

\* switch, second case: auth.Cookie.Expired().
SwitchOnExpired(expired) == IF expired THEN "NewAuthExp" ELSE "CaseNotExpired"

\* Mutant: the third case acquires a new cookie like the second.
SwitchOnNotExpiredReacquires(notExpired, e) == "NewAuthExp"

\* Mutant: a cookie found valid is read again.
SwitchOnNotExpiredRereads(notExpired, e) == "ReadAuthState"

\* switch, third case: !auth.Cookie.Expired() only logs; with or without a
\* match the switch is left with auth and err as ReadAuthState set them.
SwitchOnNotExpired(notExpired, e) == IF notExpired THEN Final(e) ELSE Final(e)

\* Mutants: the first call ignores the caller's flag.
FirstArgErrSilent(fb) == FALSE
FirstArgExpBrowser(fb) == TRUE

\* The flag of the first NewAuth call, in the err arm and in the expired arm.
FirstArgErr(fb) == fb
FirstArgExp(fb) == fb

\* The flag of the second NewAuth call: the literal true in both arms.
RetryArgErr == TRUE
RetryArgExp == TRUE

\* if err != nil after the first NewAuth call: retry, in either arm.
AfterFirstErr(e) == IF e # "" THEN "RetryErr" ELSE Final(e)

\* Mutant: in the expired arm a failed first call is not retried.
AfterFirstExpNoRetry(e) == Final(e)

AfterFirstExp(e) == IF e # "" THEN "RetryExp" ELSE Final(e)

\* Mutant: a failed second call is retried again.
AfterRetryAgain(e) == IF e # "" THEN "RetryErr" ELSE Final(e)

\* After the second NewAuth call nothing is left but the closing test.
AfterRetry(e) == Final(e)

NewAuthPcs == {"NewAuthErr", "RetryErr", "NewAuthExp", "RetryExp"}

\* The forcebrowserflow argument of the NewAuth call made at position at.
InteractiveArg(at, fb) ==
  IF at = "NewAuthErr" THEN FirstArgErr(fb)
  ELSE IF at = "NewAuthExp" THEN FirstArgExp(fb)
  ELSE IF at = "RetryErr" THEN RetryArgErr
  ELSE RetryArgExp

\* Where the handler goes when the NewAuth call made at position at returns e.
AfterNewAuth(at, e) ==
  IF at = "NewAuthErr" THEN AfterFirstErr(e)
  ELSE IF at = "NewAuthExp" THEN AfterFirstExp(e)
  ELSE AfterRetry(e)

\* The handler is left at position to: on "done" it has returned auth a to
\* the command, on "fatal" log.Fatal has ended the process.
Leave(p, to, a, e) ==
  /\ pc' = [pc EXCEPT ![p] = to]
  /\ auth' = [auth EXCEPT ![p] = a]
  /\ err' = [err EXCEPT ![p] = e]

\* ------------------------------------------------------------ the commands
\* handleIAPAuthCookieFor up to ReadAuthState: url, err := toHTTPSBaseDomain(url);
\* an error is logged and the handler goes on with url = "".
EnterRun(p, u, fb) ==
  LET n == toHTTPSBaseDomain(u)
  IN  /\ pc[p] = "idle"
      /\ pc' = [pc EXCEPT ![p] = "ReadAuthState"]
      /\ forcebrowserflow' = [forcebrowserflow EXCEPT ![p] = fb]
      /\ url' = [url EXCEPT ![p] = n.val]
      /\ urlErr' = [urlErr EXCEPT ![p] = n.err]
      /\ UNCHANGED << pureVars, now, fs, fs0, auth, err, stage, fresh, calls,
                      loaded, checkedAt >>

\* The command enters the handler; what url it was given is not kept.
Enter(p, u, fb) == EnterRun(p, u, fb) /\ UNCHANGED arg

\* execute: handleIAPAuthCookieFor(url, false), then the pass-through helper.
execute(p) == \E u \in Urls : Enter(p, u, FALSE)

\* check: handleIAPAuthCookieFor(url, forcebrowser).
check(p) == \E u \in Urls, fb \in BOOLEAN : Enter(p, u, fb)

\* print: handleIAPAuthCookieFor(url, false), then the raw token on stdout.
print(p) == \E u \in Urls : Enter(p, u, FALSE)

\* auth, err := iap.ReadAuthState(url), and the first case of the switch.
ReadAuthState(p) ==
  LET r == Load(fs, url[p])
  IN  /\ pc[p] = "ReadAuthState"
      /\ loaded' = [loaded EXCEPT ![p] = [called |-> TRUE, auth |-> r.auth, err |-> r.err]]
      /\ pc' = [pc EXCEPT ![p] = SwitchOnRead(r.err)]
      /\ auth' = [auth EXCEPT ![p] = r.auth]
      /\ err' = [err EXCEPT ![p] = r.err]
      /\ UNCHANGED << pureVars, arg, now, fs, fs0, forcebrowserflow, url, urlErr,
                      stage, fresh, calls, checkedAt >>

\* case auth.Cookie.Expired(): reads the clock.
CaseExpired(p) ==
  /\ pc[p] = "CaseExpired"
  /\ checkedAt' = [checkedAt EXCEPT ![p] = now]
  /\ pc' = [pc EXCEPT ![p] = SwitchOnExpired(Expired(auth[p].Cookie, now))]
  /\ UNCHANGED << pureVars, arg, now, fs, fs0, forcebrowserflow, url, urlErr, auth,
                  err, stage, fresh, calls, loaded >>

\* case !auth.Cookie.Expired(): reads the clock again, then the closing test.
CaseNotExpired(p) ==
  /\ pc[p] = "CaseNotExpired"
  /\ Leave(p, SwitchOnNotExpired(~Expired(auth[p].Cookie, now), err[p]), auth[p], err[p])
  /\ UNCHANGED << pureVars, arg, now, fs, fs0, forcebrowserflow, url, urlErr,
                  stage, fresh, calls, loaded, checkedAt >>

\* ------------------------------------------------------------- iap.NewAuth
\* NewAuth returns (a, e) to the handler, which takes the branch of the
\* position it called from.
Return(p, a, e) ==
  /\ Leave(p, AfterNewAuth(pc[p], e), a, e)
  /\ stage' = [stage EXCEPT ![p] = "obtain"]
  /\ fresh' = [fresh EXCEPT ![p] = NoRaw]

Call(interactive, ok, raw) ==
  [interactive |-> interactive, ok |-> ok, raw |-> raw, persisted |-> FALSE]

\* Acquisition.Obtain fails: NewAuth returns the error.
ObtainFails(p) ==
  /\ pc[p] \in NewAuthPcs
  /\ stage[p] = "obtain"
  /\ calls' = [calls EXCEPT ![p] =
       Append(@, Call(InteractiveArg(pc[p], forcebrowserflow[p]), FALSE, NoRaw))]
  /\ Return(p, NilAuth, "AuthError")
  /\ UNCHANGED << pureVars, arg, now, fs, fs0, forcebrowserflow, url, urlErr,
                  loaded, checkedAt >>

\* Acquisition.Obtain succeeds with a token that expires after now.
ObtainSucceeds(p) ==
  /\ pc[p] \in NewAuthPcs
  /\ stage[p] = "obtain"
  /\ \E tok \in Tokens, ttl \in 1..MaxTTL :
       /\ fresh' = [fresh EXCEPT ![p] = <<tok, now + ttl>>]
       /\ calls' = [calls EXCEPT ![p] =
            Append(@, Call(InteractiveArg(pc[p], forcebrowserflow[p]), TRUE,
                           <<tok, now + ttl>>))]
  /\ stage' = [stage EXCEPT ![p] = "write1"]
  /\ UNCHANGED << pureVars, arg, now, fs, fs0, pc, forcebrowserflow, url, urlErr,
                  auth, err, loaded, checkedAt >>

\* Mutant: NewAuth returns the Save error to the handler.
SaveErrorPropagates(raw) == [auth |-> NilAuth, err |-> "IOError"]

\* What NewAuth returns when CredentialStore.Save fails (IOError): the
\* failure is logged and the acquired credential is returned all the same.
SaveErrorResult(raw) == [auth |-> AuthState(raw), err |-> ""]

\* CredentialStore.Save fails before it has written anything.
SaveFails(p) ==
  /\ pc[p] \in NewAuthPcs
  /\ stage[p] = "write1"
  /\ Return(p, SaveErrorResult(fresh[p]).auth, SaveErrorResult(fresh[p]).err)
  /\ UNCHANGED << pureVars, arg, now, fs, fs0, forcebrowserflow, url, urlErr,
                  calls, loaded, checkedAt >>

\* Save creates its file and writes the first block.
SaveWrite1(p) ==
  /\ pc[p] \in NewAuthPcs
  /\ stage[p] = "write1"
  /\ fs' = [fs EXCEPT ![SavePath(url[p], p)] = WriteAt(@, 1, fresh[p][1])]
  /\ stage' = [stage EXCEPT ![p] = "write2"]
  /\ UNCHANGED << pureVars, arg, now, fs0, pc, forcebrowserflow, url, urlErr, auth,
                  err, fresh, calls, loaded, checkedAt >>

\* Save writes the second block.
SaveWrite2(p) ==
  /\ pc[p] \in NewAuthPcs
  /\ stage[p] = "write2"
  /\ fs' = [fs EXCEPT ![SavePath(url[p], p)] = WriteAt(@, 2, fresh[p][2])]
  /\ stage' = [stage EXCEPT ![p] = "rename"]
  /\ UNCHANGED << pureVars, arg, now, fs0, pc, forcebrowserflow, url, urlErr, auth,
                  err, fresh, calls, loaded, checkedAt >>

\* Save replaces the cookie file by the written one; NewAuth returns.
SaveRename(p) ==
  /\ pc[p] \in NewAuthPcs
  /\ stage[p] = "rename"
  /\ fs' = Rename(fs, SavePath(url[p], p), CookiePath(url[p]))
  /\ calls' = [calls EXCEPT ![p][Len(calls[p])].persisted = TRUE]
  /\ Return(p, AuthState(fresh[p]), "")
  /\ UNCHANGED << pureVars, arg, now, fs0, forcebrowserflow, url, urlErr, loaded,
                  checkedAt >>

\* ------------------------------------------------------------ environment
\* The process is killed from outside while NewAuth persists the cookie.
Kill(p) ==
  /\ pc[p] \in NewAuthPcs
  /\ stage[p] # "obtain"
  /\ pc' = [pc EXCEPT ![p] = "killed"]
  /\ UNCHANGED << pureVars, arg, now, fs, fs0, forcebrowserflow, url, urlErr, auth,
                  err, stage, fresh, calls, loaded, checkedAt >>

\* The wall clock advances.
Tick ==
  /\ now < MaxNow
  /\ now' = now + 1
  /\ UNCHANGED << pureVars, arg, fs, fs0, pc, forcebrowserflow, url, urlErr, auth,
                  err, stage, fresh, calls, loaded, checkedAt >>

Next ==
  \/ \E p \in Procs : execute(p)
  \/ \E p \in Procs : check(p)
  \/ \E p \in Procs : print(p)
  \/ \E p \in Procs : ReadAuthState(p)
  \/ \E p \in Procs : CaseExpired(p)
  \/ \E p \in Procs : CaseNotExpired(p)
  \/ \E p \in Procs : ObtainFails(p)
  \/ \E p \in Procs : ObtainSucceeds(p)
  \/ \E p \in Procs : SaveFails(p)
  \/ \E p \in Procs : SaveWrite1(p)
  \/ \E p \in Procs : SaveWrite2(p)
  \/ \E p \in Procs : SaveRename(p)
  \/ \E p \in Procs : Kill(p)
  \/ Tick

Spec == Init /\ [][Next]_vars

\* ------------------------------------------------------ reading the runs
Last(s) == s[Len(s)]
Min(a, b) == IF a < b THEN a ELSE b

\* The run has ended inside handleIAPAuthCookieFor: returned, or log.Fatal.
Terminal(p) == pc[p] \in {"done", "fatal"}

\* ReadAuthState returned a credential and the first Expired() has run.
Checked(p) == loaded[p].called /\ loaded[p].err = "" /\ pc[p] # "CaseExpired"

\* ReadAuthState returned an error.
ReadFailed(p) == loaded[p].called /\ loaded[p].err # ""

CachedExpiry(p) == loaded[p].auth.Cookie.Claims.ExpiresAt

\* C1: a cached credential whose expiry lies after the clock of the validity
\* check is returned as it is, and no NewAuth call is made in the run,
\* whatever the origin and the forcebrowserflow flag.
C1_ValidCacheIsReused ==
  \A p \in Procs :
    (Checked(p) /\ CachedExpiry(p) > checkedAt[p]) =>
      /\ calls[p] = <<>>
      /\ pc[p] \in {"CaseNotExpired", "done"}
      /\ pc[p] = "done" => auth[p] = loaded[p].auth

C1_Witness ==
  \E p \in Procs :
    /\ pc[p] = "done" /\ forcebrowserflow[p] /\ urlErr[p] = ""
    /\ Checked(p) /\ CachedExpiry(p) > checkedAt[p]
    /\ calls[p] = <<>> /\ auth[p] = loaded[p].auth

\* C2: when the first NewAuth call of a run is silent and fails, the run makes
\* exactly one more call, with forcebrowserflow = true, and ends when that
\* call returns; no run makes a third call.
C2_SingleEscalation ==
  \A p \in Procs :
    /\ Len(calls[p]) <= 2
    /\ (Len(calls[p]) = 2 /\ pc[p] \in NewAuthPcs) => stage[p] # "obtain"
    /\ (Len(calls[p]) >= 1 /\ ~calls[p][1].interactive /\ ~calls[p][1].ok) =>
         /\ Len(calls[p]) = 2 => calls[p][2].interactive
         /\ Terminal(p) => Len(calls[p]) = 2

C2_Witness ==
  \E p \in Procs :
    /\ pc[p] = "fatal" /\ Len(calls[p]) = 2
    /\ ~calls[p][1].interactive /\ ~calls[p][1].ok
    /\ calls[p][2].interactive /\ ~calls[p][2].ok

\* C3: a failed interactive NewAuth call is never followed by another call;
\* with forcebrowserflow = true a failed acquisition leaves exactly one call.
C3_InteractiveFailureNotRetried ==
  \A p \in Procs :
    \A i \in 1..Len(calls[p]) :
      (calls[p][i].interactive /\ ~calls[p][i].ok) => i = Len(calls[p])

\* C4: with forcebrowserflow = true no NewAuth call of the run is silent.
C4_ForcedNeverSilent ==
  \A p \in Procs :
    forcebrowserflow[p] => \A i \in 1..Len(calls[p]) : calls[p][i].interactive

C4_Witness ==
  \E p \in Procs :
    /\ forcebrowserflow[p] /\ pc[p] = "done" /\ ReadFailed(p)
    /\ Len(calls[p]) >= 1 /\ calls[p][1].interactive

\* C5: when toHTTPSBaseDomain returns an error the run ends fatally at once:
\* ReadAuthState and NewAuth are never called and nothing is returned.
C5_MalformedUrlIsFatal ==
  \A p \in Procs :
    (pc[p] # "idle" /\ urlErr[p] # "") =>
      /\ ~loaded[p].called
      /\ calls[p] = <<>>
      /\ pc[p] # "done"

\* C6: a cached credential whose expiry lies before the clock of the validity
\* check (one unit is enough) is never returned: the run calls NewAuth, and
\* its first call carries the caller's forcebrowserflow flag.
C6_ExpiredCacheIsReacquired ==
  \A p \in Procs :
    (Checked(p) /\ CachedExpiry(p) < checkedAt[p]) =>
      /\ pc[p] # "CaseNotExpired"
      /\ pc[p] = "done" => auth[p] # loaded[p].auth
      /\ Terminal(p) => Len(calls[p]) >= 1
      /\ Len(calls[p]) >= 1 => calls[p][1].interactive = forcebrowserflow[p]

C6_Witness ==
  \E p \in Procs :
    /\ Checked(p) /\ CachedExpiry(p) = checkedAt[p] - 1
    /\ ~forcebrowserflow[p] /\ pc[p] = "done"
    /\ Len(calls[p]) = 1 /\ ~calls[p][1].interactive
    /\ auth[p] # loaded[p].auth

\* Two runs were handed the same flag and the same outcomes by Acquisition
\* and Save, as far as both asked.
SameInputs(p, q) ==
  /\ forcebrowserflow[p] = forcebrowserflow[q]
  /\ \A i \in 1..Min(Len(calls[p]), Len(calls[q])) :
       /\ calls[p][i].ok = calls[q][i].ok
       /\ calls[p][i].raw = calls[q][i].raw
       /\ calls[p][i].persisted = calls[q][i].persisted

\* C7: a run whose ReadAuthState fails with a decode error and a run whose
\* ReadAuthState fails with not-found, given the same flag and the same
\* outcomes, make the same NewAuth calls, end the same way with the same
\* credential and persist the same credential; a read failure ends fatally
\* only after a failed NewAuth call.
C7_DecodeErrorLikeNotFound ==
  /\ \A p, q \in Procs :
       ( /\ loaded[p].called /\ loaded[p].err = "DecodeError"
         /\ loaded[q].called /\ loaded[q].err = "NotFound"
         /\ Terminal(p) /\ Terminal(q)
         /\ SameInputs(p, q) ) =>
           /\ calls[p] = calls[q]
           /\ pc[p] = pc[q]
           /\ auth[p] = auth[q]
  /\ \A p \in Procs :
       (ReadFailed(p) /\ pc[p] = "fatal") =>
         (Len(calls[p]) >= 1 /\ ~Last(calls[p]).ok)
  /\ \A p \in Procs :
       (ReadFailed(p) /\ Terminal(p)) => Len(calls[p]) >= 1

C7_Witness ==
  \E p, q \in Procs :
    /\ loaded[p].called /\ loaded[p].err = "DecodeError"
    /\ loaded[q].called /\ loaded[q].err = "NotFound"
    /\ pc[p] = "done" /\ pc[q] = "done"
    /\ Len(calls[p]) = 2 /\ calls[p] = calls[q] /\ auth[p] = auth[q]
    /\ Last(calls[p]).persisted

\* The handler returns to its caller in this step.
Returns(p) == pc[p] # "done" /\ pc'[p] = "done"

\* The run acquired a credential and its NewAuth call persisted it.
AcquiredAndPersisted(p) == calls[p] # <<>> /\ Last(calls[p]).persisted

ReusedByNext ==
  \A p, q \in Procs :
    ( /\ p # q /\ pc[p] = "done" /\ AcquiredAndPersisted(p)
      /\ url[q] = url[p] /\ Checked(q) /\ loaded[q].auth = auth[p]
      /\ checkedAt[q] < auth[p].Cookie.Claims.ExpiresAt ) =>
        /\ calls[q] = <<>>
        /\ pc[q] \in {"CaseNotExpired", "done"}
        /\ pc[q] = "done" => auth[q] = auth[p]

Unpersisted(p) ==
  /\ calls[p] # <<>> /\ Last(calls[p]).ok /\ ~Last(calls[p]).persisted
  /\ pc[p] # "killed"
  /\ ~(pc[p] \in NewAuthPcs /\ stage[p] # "obtain")

\* A run that finds what an unpersisting run found, no earlier on the clock,
\* acquires again.
NextReacquires ==
  \A p, q \in Procs :
    ( /\ p # q /\ Unpersisted(p) /\ url[q] = url[p] /\ loaded[q] = loaded[p]
      /\ loaded[p].err = "" => (Checked(q) /\ checkedAt[q] >= checkedAt[p])
      /\ Terminal(q) ) => calls[q] # <<>>

\* C9: when NewAuth has acquired a credential and Save failed, the run returns
\* that credential: no further NewAuth call, no fatal end; the step leaves
\* the cookie file as it was, and a run that then finds the same cache state
\* acquires again.
C9_SaveFailureIsNotFatal ==
  [][ /\ \A p \in Procs :
           Unpersisted(p)' =>
             /\ pc'[p] = "done"
             /\ auth'[p] = AuthState(Last(calls'[p]).raw)
             /\ (pc[p] \in NewAuthPcs /\ stage[p] # "obtain") =>
                  fs'[CookiePath(url[p])] = fs[CookiePath(url[p])]
      /\ NextReacquires' ]_vars

C9_Witness ==
  \E p, q \in Procs :
    /\ p # q /\ Unpersisted(p) /\ pc[p] = "done" /\ urlErr[p] = ""
    /\ auth[p] = AuthState(Last(calls[p]).raw)
    /\ Len(calls[p]) = 1
    /\ fs[CookiePath(url[p])] = fs0[CookiePath(url[p])]
    /\ url[q] = url[p] /\ loaded[q] = loaded[p] /\ Terminal(q)
    /\ calls[q] # <<>>

\* The credentials acquired, and those persisted, for an origin so far.
Acquired(o) ==
  { calls[p][i].raw : <<p, i>> \in
      { x \in Procs \X (1..2) :
          /\ url[x[1]] = o /\ x[2] <= Len(calls[x[1]])
          /\ calls[x[1]][x[2]].ok } }

Persisted(o) ==
  { calls[p][i].raw : <<p, i>> \in
      { x \in Procs \X (1..2) :
          /\ url[x[1]] = o /\ x[2] <= Len(calls[x[1]])
          /\ calls[x[1]][x[2]].persisted } }

\* C10: under every interleaving of the Save steps of concurrent processes,
\* kills included, the cookie file of an origin is what it was before any
\* process ran or holds one complete acquired credential, never a partly
\* written or mixed one; once a process has persisted, it holds one of the
\* persisted credentials.
C10_AtomicReplace ==
  \A o \in Origins :
    LET f == fs[CookiePath(o)]
    IN  /\ f = fs0[CookiePath(o)] \/ (f.exists /\ f.data \in Acquired(o))
        /\ Persisted(o) # {} => (f.exists /\ f.data \in Persisted(o))

C10_Witness ==
  \E p, q \in Procs :
    /\ p # q /\ url[p] = url[q] /\ urlErr[p] = ""
    /\ pc[p] = "killed" /\ stage[p] = "rename"
    /\ pc[q] = "done" /\ AcquiredAndPersisted(q)
    /\ fresh[p] # auth[q].RawToken
    /\ fs[CookiePath(url[p])] = File(auth[q].RawToken)
    /\ fs[TmpPath(url[p], p)] = File(fresh[p])

\* ------------------------------------------- toHTTPSBaseDomain on its own
\* toHTTPSBaseDomain is applied to its own result at most MaxApplications times.
MaxApplications == 2

\* The addresses tried: with and without a scheme (https or not, or a bare
\* ":"), with and without "//", a host, a port (numeric, empty or not a
\* number), a path, a query and a fragment.
NormSchemes == { <<>>, <<"https", ":">>, <<"http", ":">>, <<"https+iap", ":">>, <<":">> }
NormHosts == {"git.example.com", "*.example.com"}
NormAuthorities ==
  { <<>>, <<"//">> }
    \cup { <<"//", h>> : h \in NormHosts }
    \cup { <<"//", h, ":">> : h \in NormHosts }
    \cup { <<"//", h, ":", "8080">> : h \in NormHosts }
    \cup { <<"//", h, ":", "x">> : h \in NormHosts }
    \cup { <<h>> : h \in NormHosts }
    \cup { <<h, ":", "8080">> : h \in NormHosts }
NormPaths == { <<>>, <<"/repo">>, <<"/repo", "/other">> }
NormQueries == { <<>>, <<"?q">> }
NormFragments == { <<>>, <<"#f">> }

UrlInputs ==
  { s \o a \o pth \o q \o f :
      s \in NormSchemes, a \in NormAuthorities, pth \in NormPaths,
      q \in NormQueries, f \in NormFragments }

\* No run of the binary: the processes idle, no cookie file.
NoRuns ==
  /\ ProcsIdle
  /\ now = 0
  /\ fs = [x \in Paths |-> Absent]
  /\ fs0 = fs

InitNorm ==
  /\ NoRuns
  /\ pureVars \in { [rawAddr |-> a, norm |-> <<>>, hosts |-> <<>>, paths |-> <<>>] :
                       a \in UrlInputs }

\* toHTTPSBaseDomain(rawAddr), then toHTTPSBaseDomain of what it returned.
Normalize ==
  /\ Len(norm) < MaxApplications
  /\ norm # <<>> => Last(norm).err = ""
  /\ pureVars' =
       [pureVars EXCEPT
          !.norm = Append(norm, toHTTPSBaseDomain(IF norm = <<>> THEN rawAddr
                                                  ELSE Last(norm).val))]
  /\ UNCHANGED runVars

NextNorm == Normalize

SpecNorm == InitNorm /\ [][NextNorm]_vars

MaxPieces == 3

\* Hosts are sequences of characters here: the substitutions work on characters.
HostPieces ==
  { <<"*">>, <<".">>, <<"-">>, <<"_">>, <<"a">>,
    <<"w", "i", "l", "d", "c", "a", "r", "d">> }

RECURSIVE HostsOf(_)
HostsOf(n) ==
  IF n = 0 THEN { <<>> }
  ELSE HostsOf(n - 1) \cup { piece \o h : piece \in HostPieces, h \in HostsOf(n - 1) }

HostInputs == HostsOf(MaxPieces) \ { <<>> }

\* strings.ReplaceAll(s, old, new) for a one-character old.
RECURSIVE ReplaceAll(_, _, _)
ReplaceAll(s, old, new) ==
  IF s = <<>> THEN <<>>
  ELSE (IF Head(s) = old THEN new ELSE << Head(s) >>) \o ReplaceAll(Tail(s), old, new)

\* "_wildcard_"
Wildcard == << "_", "w", "i", "l", "d", "c", "a", "r", "d", "_" >>

domainSlug(host) == ReplaceAll(ReplaceAll(host, ".", << "-" >>), "*", Wildcard)

\* fmt.Sprintf("~/.config/gcp-iap/%s.cookie", domainSlug)
cookiePath(host) == << "~/.config/gcp-iap/" >> \o domainSlug(host) \o << ".cookie" >>

InitSlug ==
  /\ NoRuns
  /\ PureIdle

\* configure --repoURL with repo.Host = host: the cookieFile it sets. Two
\* configurations are compared.
configureIAP(host) ==
  /\ Len(hosts) <= 1
  /\ pureVars' =
       [pureVars EXCEPT !.hosts = Append(hosts, host),
                        !.paths = Append(paths, cookiePath(host))]
  /\ UNCHANGED runVars

NextSlug == \E host \in HostInputs : configureIAP(host)

SpecSlug == InitSlug /\ [][NextSlug]_vars

\* strings.Contains(repo.Host, "*")
IsWildcardHost(host) == \E i \in DOMAIN host : host[i] = "*"

\* C12: the cookie path of a host containing "*" differs from the cookie
\* path of every host that contains no "*".
C12_WildcardPathDistinct ==
  \A i, j \in DOMAIN hosts :
    (IsWildcardHost(hosts[i]) /\ ~IsWildcardHost(hosts[j])) => paths[i] # paths[j]

\* C13: two distinct hosts never get the same cookie path.
C13_PathsCollisionFree ==
  \A i, j \in DOMAIN hosts :
    hosts[i] # hosts[j] => paths[i] # paths[j]

\* ------------------------------------------------------ runs to their end
\* One step of the handler of process p: the statement it is at, or the step
\* of the ReadAuthState or NewAuth call it is in.
Step(p) ==
  \/ ReadAuthState(p)
  \/ CaseExpired(p)
  \/ CaseNotExpired(p)
  \/ ObtainFails(p)
  \/ ObtainSucceeds(p)
  \/ SaveFails(p)
  \/ SaveWrite1(p)
  \/ SaveWrite2(p)
  \/ SaveRename(p)

\* The runs when no process is killed.
NextRuns ==
  \/ \E p \in Procs : execute(p)
  \/ \E p \in Procs : check(p)
  \/ \E p \in Procs : print(p)
  \/ \E p \in Procs : Step(p)
  \/ Tick

\* The runs to their end, from every cookie file, when no process is killed.
SpecRuns == Init /\ [][NextRuns]_vars

\* ------------------------------------------- runs, with the url they got
\* As Enter, and the url the command was given is kept.
EnterKeyed(p, u, fb) == EnterRun(p, u, fb) /\ arg' = [arg EXCEPT ![p] = u]

executeKeyed(p) == \E u \in Urls : EnterKeyed(p, u, FALSE)

checkKeyed(p) == \E u \in Urls, fb \in BOOLEAN : EnterKeyed(p, u, fb)

printKeyed(p) == \E u \in Urls : EnterKeyed(p, u, FALSE)

\* The runs start with no cookie file.
InitNoCookie ==
  /\ PureIdle
  /\ NoRuns

NextKeyed ==
  \/ \E p \in Procs : executeKeyed(p)
  \/ \E p \in Procs : checkKeyed(p)
  \/ \E p \in Procs : printKeyed(p)
  \/ \E p \in Procs : Step(p)
  \/ Tick

\* The runs to their end from no cookie file, with the urls they were given.
SpecKeyed == InitNoCookie /\ [][NextKeyed]_vars

\* The two runs were given urls that parse and have the same host.
SameHost(p, q) ==
  /\ pc[p] # "idle" /\ pc[q] # "idle"
  /\ Parse(arg[p]).err = "" /\ Parse(arg[q]).err = ""
  /\ Parse(arg[p]).Host = Parse(arg[q]).Host

\* A run works on "https://" + host, whatever else its url holds, and two
\* runs that work on different keys were given different hosts.
SameKey ==
  /\ \A p \in Procs :
       LET u == Parse(arg[p])
       IN  (pc[p] # "idle" /\ u.err = "") => url[p] = <<"https", ":", "//">> \o u.Host
  /\ \A p, q \in Procs : url[p] # url[q] => ~SameHost(p, q)

\* Run p has returned a credential that its NewAuth call stored, and the
\* cookie file of its url still holds it.
Stored(p) ==
  /\ pc[p] = "done" /\ AcquiredAndPersisted(p)
  /\ Load(fs, url[p]) = [auth |-> auth[p], err |-> ""]

\* C14: ReadAuthState and NewAuth work on https://<host> and not on the url
\* given: two runs whose urls have the same host work on the same key, the
\* second, about to read, reads the credential the first stored, and returns
\* it without a NewAuth call when its validity check comes before the expiry.
C14_KeyedByOrigin ==
  /\ SameKey
  /\ \A p, q \in Procs :
       (p # q /\ pc[q] = "ReadAuthState" /\ Stored(p) /\ SameHost(p, q)) =>
         Load(fs, url[q]) = [auth |-> auth[p], err |-> ""]
  /\ \A p, q \in Procs :
       ( /\ p # q /\ pc[p] = "done" /\ AcquiredAndPersisted(p)
         /\ Checked(q) /\ loaded[q].auth = auth[p]
         /\ checkedAt[q] < auth[p].Cookie.Claims.ExpiresAt
         /\ SameHost(p, q) ) =>
           /\ calls[q] = <<>>
           /\ pc[q] = "done" => auth[q] = auth[p]

C14_Witness ==
  \E p, q \in Procs :
    /\ p # q
    /\ arg[p] = <<"https", ":", "//", "git.example.com", "/repo">>
    /\ arg[q] = <<"https+iap", ":", "//", "git.example.com", "/other", "?q", "#f">>
    /\ pc[p] = "done" /\ AcquiredAndPersisted(p)
    /\ pc[q] = "done" /\ calls[q] = <<>>
    /\ loaded[q].auth = auth[p] /\ auth[q] = auth[p]
    /\ url[q] = <<"https", ":", "//", "git.example.com">>

\* ------------------------------------------------ the two ways to NewAuth
\* ReadAuthState returned a credential that the validity check found expired.
FoundExpired(p) == Checked(p) /\ Expired(loaded[p].auth.Cookie, checkedAt[p])

\* C15: a run whose ReadAuthState failed and a run whose cached credential was
\* found expired, given the same flag and the same NewAuth outcomes, make the
\* same NewAuth calls with the same flags and end the same way with the same
\* credential.
C15_SameEscalationForBothTriggers ==
  \A p, q \in Procs :
    ( /\ ReadFailed(p) /\ FoundExpired(q)
      /\ Terminal(p) /\ Terminal(q)
      /\ SameInputs(p, q) ) =>
        /\ calls[p] = calls[q]
        /\ pc[p] = pc[q]
        /\ auth[p] = auth[q]

C15_Witness ==
  \E p, q \in Procs :
    /\ ReadFailed(p) /\ FoundExpired(q)
    /\ ~forcebrowserflow[p] /\ ~forcebrowserflow[q]
    /\ pc[p] = "done" /\ pc[q] = "done"
    /\ Len(calls[p]) = 2 /\ ~calls[p][1].ok /\ calls[p][2].interactive
    /\ calls[p] = calls[q] /\ auth[p] = auth[q]

\* ------------------------------------------------------ what is returned
\* The run returns the cached credential, found unexpired at the validity check.
ReturnsCached(p) ==
  /\ calls[p] = <<>>
  /\ Checked(p) /\ ~Expired(loaded[p].auth.Cookie, checkedAt[p])
  /\ auth[p] = loaded[p].auth

\* The run returns what its last NewAuth call returned, and that call succeeded.
ReturnsAcquired(p) ==
  /\ calls[p] # <<>>
  /\ Last(calls[p]).ok
  /\ auth[p] = AuthState(Last(calls[p]).raw)

\* C16: a run that has returned returns either the cached credential found
\* unexpired at the validity check or the result of its last NewAuth call,
\* which succeeded; a cached credential found expired is never returned, and a
\* run whose last NewAuth call failed ends in log.Fatal.
C16_ReturnedIsValidOrAcquired ==
  \A p \in Procs :
    /\ pc[p] = "done" => (ReturnsCached(p) \/ ReturnsAcquired(p))
    /\ (pc[p] = "done" /\ FoundExpired(p)) =>
         (ReturnsAcquired(p) /\ auth[p] # loaded[p].auth)
    /\ (Terminal(p) /\ calls[p] # <<>> /\ ~Last(calls[p]).ok) => pc[p] = "fatal"

C16_Witness ==
  \E p, q \in Procs :
    /\ pc[p] = "done" /\ FoundExpired(p)
    /\ Len(calls[p]) = 2 /\ ~calls[p][1].ok /\ ReturnsAcquired(p)
    /\ pc[q] = "fatal" /\ Len(calls[q]) = 2 /\ ~Last(calls[q]).ok

\* ------------------------------------------------------------ termination
\* Every call returns: a process that can take a step takes one.
SpecFair == InitNoCookie /\ [][NextRuns]_vars /\ \A p \in Procs : WF_vars(Step(p))

\* The run is inside handleIAPAuthCookieFor.
Running(p) == pc[p] \notin {"idle", "done", "fatal", "killed"}

\* C17: every run that has entered the handler leaves it, returned or in
\* log.Fatal, and stays so: from some moment on no run is inside the handler.
\* A run makes at most two NewAuth calls, and once ReadAuthState has returned
\* it is never at ReadAuthState again.
C17_RunTerminates ==
  /\ <>[](\A p \in Procs : ~Running(p))
  /\ [](\A p \in Procs : Len(calls[p]) <= 2)
  /\ [][ \A p \in Procs :
           /\ loaded[p].called => pc'[p] # "ReadAuthState"
           /\ Running(p) => (Running(p)' \/ Terminal(p)')
           /\ Terminal(p) => pc'[p] = pc[p] ]_vars

C17_Witness ==
  \E p, q \in Procs :
    /\ pc[p] = "done" /\ loaded[p].called /\ Len(calls[p]) = 2
    /\ pc[q] = "fatal" /\ loaded[q].called /\ Len(calls[q]) = 2

====
